---- MODULE Spec2Model ----
(***************************************************************************)
(* Model of the JOSS criteria evaluator (bin/analyze_joss.py) and of the   *)
(* test runner (bin/run_tests.py) of cckp-toolkit-workflow.                *)
(*                                                                         *)
(* Python values are modelled as follows.                                  *)
(*  - JSON scalars that occur as metric results are the strings "True",    *)
(*    "False" and "None"; Truthy is Python's truth test on them.           *)
(*  - a dict is a function whose DOMAIN is its key set; a list is a        *)
(*    sequence.                                                            *)
(*  - a float is an IEEE-754 double.  Every double the evaluator can       *)
(*    produce is a non-negative multiple of 2^-57 below 8, and is written  *)
(*    as three limbs <<h, m, l>> of 20 bits each standing for              *)
(*    (h * 2^40 + m * 2^20 + l) * 2^-57, so that additions and the         *)
(*    division round exactly as the hardware does (round half to even at   *)
(*    53 significant bits).                                                *)
(***************************************************************************)
EXTENDS Integers, Sequences, FiniteSets, TLC

VARIABLES
    pc,               \* position in the function that is running
    test_results,     \* argument of analyze_test_results
    test_criteria,    \* value returned by analyze_test_results
    almanack_results, \* argument of analyze_almanack_results
    readme,           \* README.md of repo_dir: whether it exists, the phrases in it
    almanack_criteria,\* value returned by analyze_almanack_results
    criteria,         \* the criteria dict of analyze_joss_criteria
    report,           \* the dict returned by analyze_joss_criteria
    repo_files,       \* files present in repo_dir (detect_project_type)
    project_type,     \* value returned by detect_project_type
    run_results,      \* the results dict of a test adapter
    process,          \* what the test command left: returncode, stdout, stderr
    spawned,          \* the child processes started so far, in order
    line_no,          \* index of the next stdout line run_python_tests parses
    adapter,          \* the branch execute_tests dispatched to
    raised,           \* an exception left the running function
    argc,             \* len(sys.argv) of analyze_joss.py
    almanack_results_file, \* state of the file named by sys.argv[2]
    test_results_file,\* state of the file named by sys.argv[3]
    repo_dir_exists,  \* whether the directory named by repo_dir exists
    exit_status,      \* exit status of analyze_joss.py, -1 while it runs
    output_file,      \* joss_report_<repo_name>.json
    readme_text,      \* README.md as a character sequence
    signals           \* value returned by analyze_readme_content

evalVars == <<test_results, test_criteria, almanack_results, readme,
              almanack_criteria, criteria, report>>
runVars == <<run_results, process, spawned, line_no, adapter, raised>>
mainVars == <<argc, almanack_results_file, test_results_file, repo_dir_exists,
              exit_status, output_file>>
scanVars == <<readme_text, signals>>

vars == <<pc, evalVars, repo_files, project_type, runVars, mainVars, scanVars>>

-----------------------------------------------------------------------------
(* Bounds of the model *)

MaxRecords == 2     \* longest metrics list
MaxTests == 10      \* largest total_tests / passed count

-----------------------------------------------------------------------------
(* IEEE-754 doubles as limbs *)

Limb == 1024 * 1024                  \* 2^20

DblZero == <<0, 0, 0>>

\* a + b, exact (no rounding)
LimbAdd(a, b) ==
    LET l == a[3] + b[3]
        m == a[2] + b[2] + (l \div Limb)
        h == a[1] + b[1] + (m \div Limb)
    IN  <<h, m % Limb, l % Limb>>

\* distance between neighbouring doubles at the magnitude of v, in units:
\* a double has 53 significant bits, so below 2^53 units (h < 2^13) every
\* multiple of the unit is a double, and each doubling of v doubles the gap
RECURSIVE QuantumFrom(_, _)
QuantumFrom(h, q) == IF h < 8192 * q THEN q ELSE QuantumFrom(h, 2 * q)

Quantum(v) == QuantumFrom(v[1], 1)

\* round v + rem/den to the nearest double, ties to even
RoundDbl(v, rem, den) ==
    LET q    == Quantum(v)
        r    == v[3] % q
        down == <<v[1], v[2], v[3] - r>>
        up   == LimbAdd(down, <<0, 0, q>>)
        lhs  == 2 * (den * r + rem)
        rhs  == den * q
    IN  IF lhs < rhs THEN down
        ELSE IF lhs > rhs THEN up
        ELSE IF (v[3] \div q) % 2 = 0 THEN down ELSE up

\* float.__add__
FloatAdd(a, b) == RoundDbl(LimbAdd(a, b), 0, 1)

\* float.__truediv__ by the int n (0 < n < 2048)
FloatDiv(a, n) ==
    LET qh == a[1] \div n
        rh == a[1] % n
        qm == (rh * Limb + a[2]) \div n
        rm == (rh * Limb + a[2]) % n
        ql == (rm * Limb + a[3]) \div n
        rl == (rm * Limb + a[3]) % n
    IN  RoundDbl(<<qh, qm, ql>>, rl, n)

\* float(n) for an int 0 <= n < 16384
IntToDbl(n) == <<n * 131072, 0, 0>>

DblLess(a, b) ==
    \/ a[1] < b[1]
    \/ a[1] = b[1] /\ a[2] < b[2]
    \/ a[1] = b[1] /\ a[2] = b[2] /\ a[3] < b[3]

-----------------------------------------------------------------------------
(* Constants of analyze_joss.py *)

NEEDS_IMPROVEMENT == "needs improvement"
OK == "ok"
GOOD == "good"

NOT_ANALYZED == "Not analyzed"
MISSING_README == "Missing README with statement of need"
MISSING_INSTALL == "Missing installation instructions"
MISSING_USAGE == "Missing example usage"
MISSING_GUIDELINES == "Missing community guidelines"
FOUND_COMPREHENSIVE_NEED == "Found comprehensive statement of need in README"
FOUND_NEED_IMPROVEMENT == "Found README but statement of need needs improvement"
FOUND_COMPREHENSIVE_INSTALL == "Found comprehensive installation instructions"
FOUND_INSTALL_IMPROVEMENT == "Found documentation but installation instructions need improvement"
FOUND_COMPREHENSIVE_USAGE == "Found comprehensive example usage"
FOUND_USAGE_IMPROVEMENT == "Found documentation but example usage needs improvement"
FOUND_BOTH_GUIDELINES == "Found both contributing guidelines and code of conduct"
FOUND_PARTIAL_GUIDELINES == "Found partial community guidelines"

SCORE_GOOD == <<131072, 0, 0>>                  \* 1.0
SCORE_OK == <<91750, 419430, 419424>>           \* 0.7
SCORE_NEEDS_IMPROVEMENT == <<39321, 629145, 629144>>   \* 0.3
SCORE_NONE == DblZero                           \* 0.0

TEST_PASS_RATE_GOOD == <<117964, 838860, 838864>>      \* 0.9
TEST_PASS_RATE_OK == <<91750, 419430, 419424>>         \* 0.7

Status == {NEEDS_IMPROVEMENT, OK, GOOD}

-----------------------------------------------------------------------------
(* Python helpers *)

\* bool(v) for a JSON scalar
Truthy(v) == v = "True"

\* dict.get(key, default)
DictGet(d, key, default) == IF key \in DOMAIN d THEN d[key] ELSE default

\* bool(payload) for a list or a dict: empty containers are falsy
NonEmpty(payload) ==
    IF payload.shape = "list" THEN Len(payload.items) > 0
    ELSE DOMAIN payload.items # {}

-----------------------------------------------------------------------------
(* get_metric_value *)

\* a plausible slip: the scan keeps going, so the last match wins
RECURSIVE FirstMatch_LastWins(_, _, _)
FirstMatch_LastWins(items, metric_name, i) ==
    IF i > Len(items) THEN "None"
    ELSE LET later == FirstMatch_LastWins(items, metric_name, i + 1)
         IN  IF items[i].name = metric_name /\ later = "None"
             THEN items[i].result
             ELSE later

RECURSIVE FirstMatch(_, _, _)
FirstMatch(items, metric_name, i) ==
    IF i > Len(items) THEN "None"
    ELSE IF items[i].name = metric_name THEN items[i].result
    ELSE FirstMatch(items, metric_name, i + 1)

get_metric_value(metrics, metric_name) ==
    IF metrics.shape = "list" THEN FirstMatch(metrics.items, metric_name, 1)
    ELSE IF metrics.shape = "dict" THEN DictGet(metrics.items, metric_name, "None")
    ELSE "None"

-----------------------------------------------------------------------------
(* analyze_readme_content *)

ProblemPhrases == {"problem", "solve", "purpose", "aim", "goal", "objective"}
AudiencePhrases == {"audience", "users", "intended for", "designed for"}
RelatedPhrases == {"related", "similar", "compared to", "alternative"}
InstallPhrases == {"install", "setup", "dependencies", "requirements", "pip install"}
UsagePhrases == {"example", "usage", "how to use", "quick start", "getting started"}

\* any(phrase in content for phrase in phrases), content being the set of
\* phrases that occur in the lower-cased text
AnyPhrase(phrases, content) == \E phrase \in phrases : phrase \in content

\* a plausible slip: one of the three parts is enough for a statement of need
analyze_readme_content_AnyPart(file) ==
    IF ~file.exists
    THEN [statement_of_need |-> FALSE, installation |-> FALSE, example_usage |-> FALSE]
    ELSE [statement_of_need |-> AnyPhrase(ProblemPhrases, file.content)
                                   \/ AnyPhrase(AudiencePhrases, file.content)
                                   \/ AnyPhrase(RelatedPhrases, file.content),
          installation      |-> AnyPhrase(InstallPhrases, file.content),
          example_usage     |-> AnyPhrase(UsagePhrases, file.content)]

analyze_readme_content(file) ==
    IF ~file.exists
    THEN [statement_of_need |-> FALSE, installation |-> FALSE, example_usage |-> FALSE]
    ELSE LET has_problem_statement == AnyPhrase(ProblemPhrases, file.content)
             has_target_audience   == AnyPhrase(AudiencePhrases, file.content)
             has_related_work      == AnyPhrase(RelatedPhrases, file.content)
             has_installation      == AnyPhrase(InstallPhrases, file.content)
             has_examples          == AnyPhrase(UsagePhrases, file.content)
         IN  [statement_of_need |-> has_problem_statement /\ has_target_audience
                                        /\ has_related_work,
              installation      |-> has_installation,
              example_usage     |-> has_examples]

-----------------------------------------------------------------------------
(* analyze_test_results *)

Criterion(status, score, details) ==
    [status |-> status, score |-> score, details |-> details]

DefaultCriterion == Criterion(NEEDS_IMPROVEMENT, SCORE_NONE, NOT_ANALYZED)

\* the "\n".join([...]) summary of framework, totals and error; its text is
\* not interpreted by any later step
TestDetails == "Framework/Total Tests/Passed/Failed/Error summary"

\* a plausible slip: the OK branch sets the status but scores SCORE_GOOD
analyze_test_results_ScoreSlip(results) ==
    IF DOMAIN results # {}
    THEN LET total_tests  == DictGet(results, "total_tests", 0)
             passed_tests == DictGet(results, "passed", 0)
         IN  IF total_tests > 0
             THEN LET pass_rate == FloatDiv(IntToDbl(passed_tests), total_tests)
                  IN  IF ~DblLess(pass_rate, TEST_PASS_RATE_GOOD)
                      THEN Criterion(GOOD, SCORE_GOOD, TestDetails)
                      ELSE IF ~DblLess(pass_rate, TEST_PASS_RATE_OK)
                      THEN Criterion(OK, SCORE_GOOD, TestDetails)
                      ELSE Criterion(NEEDS_IMPROVEMENT, SCORE_NEEDS_IMPROVEMENT,
                                     TestDetails)
             ELSE Criterion(NEEDS_IMPROVEMENT, SCORE_NONE, TestDetails)
    ELSE DefaultCriterion

\* a plausible slip: the GOOD threshold compared with > instead of >=
analyze_test_results_StrictGood(results) ==
    IF DOMAIN results # {}
    THEN LET total_tests  == DictGet(results, "total_tests", 0)
             passed_tests == DictGet(results, "passed", 0)
         IN  IF total_tests > 0
             THEN LET pass_rate == FloatDiv(IntToDbl(passed_tests), total_tests)
                  IN  IF DblLess(TEST_PASS_RATE_GOOD, pass_rate)
                      THEN Criterion(GOOD, SCORE_GOOD, TestDetails)
                      ELSE IF ~DblLess(pass_rate, TEST_PASS_RATE_OK)
                      THEN Criterion(OK, SCORE_OK, TestDetails)
                      ELSE Criterion(NEEDS_IMPROVEMENT, SCORE_NEEDS_IMPROVEMENT,
                                     TestDetails)
             ELSE Criterion(NEEDS_IMPROVEMENT, SCORE_NONE, TestDetails)
    ELSE DefaultCriterion

analyze_test_results(results) ==
    IF DOMAIN results # {}
    THEN LET total_tests  == DictGet(results, "total_tests", 0)
             passed_tests == DictGet(results, "passed", 0)
         IN  IF total_tests > 0
             THEN LET pass_rate == FloatDiv(IntToDbl(passed_tests), total_tests)
                  IN  IF ~DblLess(pass_rate, TEST_PASS_RATE_GOOD)
                      THEN Criterion(GOOD, SCORE_GOOD, TestDetails)
                      ELSE IF ~DblLess(pass_rate, TEST_PASS_RATE_OK)
                      THEN Criterion(OK, SCORE_OK, TestDetails)
                      ELSE Criterion(NEEDS_IMPROVEMENT, SCORE_NEEDS_IMPROVEMENT,
                                     TestDetails)
             ELSE Criterion(NEEDS_IMPROVEMENT, SCORE_NONE, TestDetails)
    ELSE DefaultCriterion

-----------------------------------------------------------------------------
(* analyze_almanack_results *)

README_METRIC == "repo-includes-readme"
CONTRIBUTING_METRIC == "repo-includes-contributing"
CODE_OF_CONDUCT_METRIC == "repo-includes-code-of-conduct"
COMMON_DOCS_METRIC == "repo-includes-common-docs"

\* a plausible slip: a README without a full statement of need is judged
\* "needs improvement"
StatementOfNeed_PartialFails(has_readme, file) ==
    IF Truthy(has_readme) /\ analyze_readme_content(file).statement_of_need
    THEN Criterion(GOOD, SCORE_GOOD, FOUND_COMPREHENSIVE_NEED)
    ELSE Criterion(NEEDS_IMPROVEMENT, SCORE_NEEDS_IMPROVEMENT, MISSING_README)

StatementOfNeed(has_readme, file) ==
    IF Truthy(has_readme)
    THEN IF analyze_readme_content(file).statement_of_need
         THEN Criterion(GOOD, SCORE_GOOD, FOUND_COMPREHENSIVE_NEED)
         ELSE Criterion(OK, SCORE_OK, FOUND_NEED_IMPROVEMENT)
    ELSE Criterion(NEEDS_IMPROVEMENT, SCORE_NEEDS_IMPROVEMENT, MISSING_README)

\* a plausible slip: the gate joined with "or"
InstallationInstructions_EitherMetric(has_readme, has_docs, file) ==
    IF Truthy(has_readme) \/ Truthy(has_docs)
    THEN IF analyze_readme_content(file).installation
         THEN Criterion(GOOD, SCORE_GOOD, FOUND_COMPREHENSIVE_INSTALL)
         ELSE Criterion(OK, SCORE_OK, FOUND_INSTALL_IMPROVEMENT)
    ELSE Criterion(NEEDS_IMPROVEMENT, SCORE_NEEDS_IMPROVEMENT, MISSING_INSTALL)

InstallationInstructions(has_readme, has_docs, file) ==
    IF Truthy(has_readme) /\ Truthy(has_docs)
    THEN IF analyze_readme_content(file).installation
         THEN Criterion(GOOD, SCORE_GOOD, FOUND_COMPREHENSIVE_INSTALL)
         ELSE Criterion(OK, SCORE_OK, FOUND_INSTALL_IMPROVEMENT)
    ELSE Criterion(NEEDS_IMPROVEMENT, SCORE_NEEDS_IMPROVEMENT, MISSING_INSTALL)

ExampleUsage(has_readme, has_docs, file) ==
    IF Truthy(has_readme) /\ Truthy(has_docs)
    THEN IF analyze_readme_content(file).example_usage
         THEN Criterion(GOOD, SCORE_GOOD, FOUND_COMPREHENSIVE_USAGE)
         ELSE Criterion(OK, SCORE_OK, FOUND_USAGE_IMPROVEMENT)
    ELSE Criterion(NEEDS_IMPROVEMENT, SCORE_NEEDS_IMPROVEMENT, MISSING_USAGE)

\* a plausible slip: the partial branch looks at has_contributing only
CommunityGuidelines_OnlyContributing(has_contributing, has_code_of_conduct) ==
    IF Truthy(has_contributing) /\ Truthy(has_code_of_conduct)
    THEN Criterion(GOOD, SCORE_GOOD, FOUND_BOTH_GUIDELINES)
    ELSE IF Truthy(has_contributing)
    THEN Criterion(OK, SCORE_OK, FOUND_PARTIAL_GUIDELINES)
    ELSE Criterion(NEEDS_IMPROVEMENT, SCORE_NEEDS_IMPROVEMENT, MISSING_GUIDELINES)

\* a plausible slip: the "missing" branch scores SCORE_NONE
CommunityGuidelines_ScoreNone(has_contributing, has_code_of_conduct) ==
    IF Truthy(has_contributing) /\ Truthy(has_code_of_conduct)
    THEN Criterion(GOOD, SCORE_GOOD, FOUND_BOTH_GUIDELINES)
    ELSE IF Truthy(has_contributing) \/ Truthy(has_code_of_conduct)
    THEN Criterion(OK, SCORE_OK, FOUND_PARTIAL_GUIDELINES)
    ELSE Criterion(NEEDS_IMPROVEMENT, SCORE_NONE, MISSING_GUIDELINES)

CommunityGuidelines(has_contributing, has_code_of_conduct) ==
    IF Truthy(has_contributing) /\ Truthy(has_code_of_conduct)
    THEN Criterion(GOOD, SCORE_GOOD, FOUND_BOTH_GUIDELINES)
    ELSE IF Truthy(has_contributing) \/ Truthy(has_code_of_conduct)
    THEN Criterion(OK, SCORE_OK, FOUND_PARTIAL_GUIDELINES)
    ELSE Criterion(NEEDS_IMPROVEMENT, SCORE_NEEDS_IMPROVEMENT, MISSING_GUIDELINES)

AlmanackNames == {"Statement of Need", "Installation Instructions",
                  "Example Usage", "Community Guidelines"}

analyze_almanack_results(metrics, file) ==
    IF NonEmpty(metrics)
    THEN LET has_readme          == get_metric_value(metrics, README_METRIC)
             has_contributing    == get_metric_value(metrics, CONTRIBUTING_METRIC)
             has_code_of_conduct == get_metric_value(metrics, CODE_OF_CONDUCT_METRIC)
             has_docs            == get_metric_value(metrics, COMMON_DOCS_METRIC)
         IN  [n \in AlmanackNames |->
                CASE n = "Statement of Need" -> StatementOfNeed(has_readme, file)
                  [] n = "Installation Instructions" ->
                         InstallationInstructions(has_readme, has_docs, file)
                  [] n = "Example Usage" -> ExampleUsage(has_readme, has_docs, file)
                  [] n = "Community Guidelines" ->
                         CommunityGuidelines(has_contributing, has_code_of_conduct)]
    ELSE [n \in AlmanackNames |-> DefaultCriterion]

-----------------------------------------------------------------------------
(* analyze_joss_criteria *)

\* the keys of criteria, in insertion order
CriteriaOrder == <<"Statement of Need", "Installation Instructions",
                   "Example Usage", "Community Guidelines", "Tests">>

CriteriaNames == {CriteriaOrder[i] : i \in 1..Len(CriteriaOrder)}

InitialCriteria == [n \in CriteriaNames |-> DefaultCriterion]

\* a plausible slip: the almanack criteria replace the dict instead of
\* being merged into it
DictUpdate_Replace(d, other) == other

\* dict.update(other)
DictUpdate(d, other) ==
    [k \in DOMAIN d \cup DOMAIN other |-> IF k \in DOMAIN other THEN other[k] ELSE d[k]]

\* the values of dict d whose keys were inserted in the order keys
DictValues(d, keys) == [i \in 1..Len(keys) |-> d[keys[i]]]

\* sum(...) over a sequence of floats starts from 0 and adds left to right.
\* CPython up to 3.11 rounds after every addition; CPython 3.12 and later
\* carry the rounding errors along (Neumaier) and add them back at the end,
\* which for these values returns the exact sum rounded once.  The scripts run
\* under whatever python3 the environment provides.
RECURSIVE SumFrom(_, _, _)
SumFrom(acc, xs, i) ==
    IF i > Len(xs) THEN acc ELSE SumFrom(FloatAdd(acc, xs[i]), xs, i + 1)

RECURSIVE ExactSumFrom(_, _, _)
ExactSumFrom(acc, xs, i) ==
    IF i > Len(xs) THEN acc ELSE ExactSumFrom(LimbAdd(acc, xs[i]), xs, i + 1)

SumBuilds == {"rounding", "compensated"}

PySum(xs, build) ==
    IF build = "rounding" THEN SumFrom(DblZero, xs, 1)
    ELSE RoundDbl(ExactSumFrom(DblZero, xs, 1), 0, 1)

\* a plausible slip: the scores of the almanack criteria alone are summed
Aggregation_WithoutTests(crit, build) ==
    LET values       == DictValues(crit, SubSeq(CriteriaOrder, 1, 4))
        total_score  == PySum([i \in 1..Len(values) |-> values[i].score], build)
        max_score    == Cardinality(DOMAIN crit)
        overall_score == IF max_score > 0 THEN FloatDiv(total_score, max_score)
                         ELSE DblZero
    IN  [criteria |-> crit, overall_score |-> overall_score,
         total_score |-> total_score, max_score |-> max_score]

Aggregation(crit, build) ==
    LET values       == DictValues(crit, CriteriaOrder)
        total_score  == PySum([i \in 1..Len(values) |-> values[i].score], build)
        max_score    == Cardinality(DOMAIN crit)
        overall_score == IF max_score > 0 THEN FloatDiv(total_score, max_score)
                         ELSE DblZero
    IN  [criteria |-> crit, overall_score |-> overall_score,
         total_score |-> total_score, max_score |-> max_score]

-----------------------------------------------------------------------------
(* Inputs *)

MetricNames == {README_METRIC, CONTRIBUTING_METRIC, CODE_OF_CONDUCT_METRIC,
                COMMON_DOCS_METRIC, "repo-includes-license"}

MetricValues == {"True", "False", "None"}

MetricRecords == [name : MetricNames, result : MetricValues]

ListPayloads ==
    [shape : {"list"},
     items : UNION {[1..n -> MetricRecords] : n \in 0..MaxRecords}]

DictPayloads ==
    [shape : {"dict"},
     items : UNION {[K -> MetricValues] : K \in SUBSET MetricNames}]

TestKeys == {"total_tests", "passed", "failed"}

TestPayloads == UNION {[K -> 0..MaxTests] : K \in SUBSET TestKeys}

Vocabulary == {"purpose", "users", "alternative", "install", "example"}

ReadmeFiles ==
    {[exists |-> FALSE, content |-> {}]}
        \cup [exists : {TRUE}, content : SUBSET Vocabulary]

\* values of the arguments outside the call that reads them
NoTestResults == <<>>
NoMetrics == [shape |-> "list", items |-> <<>>]
NoReadme == [exists |-> FALSE, content |-> {}]
NoAlmanackCriteria == [n \in AlmanackNames |-> DefaultCriterion]
NoReport == [criteria |-> InitialCriteria, overall_score |-> DblZero,
             total_score |-> DblZero, max_score |-> 0]

\* values of the test runner's state before execute_tests is called
NoResults == [status |-> "none"]
NoProcess == [returncode |-> 0, stdout |-> <<>>, stderr |-> ""]

IdleRun ==
    /\ run_results = NoResults
    /\ process = NoProcess
    /\ spawned = <<>>
    /\ line_no = 1
    /\ adapter = "none"
    /\ raised = FALSE

\* values of the entry point's state when analyze_joss_criteria is called on
\* its own
NoOutput == [written |-> FALSE, data |-> NoReport]

IdleMain ==
    /\ argc = 5
    /\ almanack_results_file = "json"
    /\ test_results_file = "json"
    /\ repo_dir_exists = TRUE
    /\ exit_status = -1
    /\ output_file = NoOutput

NoText == [exists |-> FALSE, text |-> <<>>]
NoSignals == [statement_of_need |-> FALSE, installation |-> FALSE,
              example_usage |-> FALSE]

IdleScan ==
    /\ readme_text = NoText
    /\ signals = NoSignals


-----------------------------------------------------------------------------
(* Actions of analyze_joss_criteria *)

Init ==
    /\ pc = "start"
    /\ test_results = NoTestResults
    /\ test_criteria = DefaultCriterion
    /\ almanack_results = NoMetrics
    /\ readme = NoReadme
    /\ almanack_criteria = NoAlmanackCriteria
    /\ criteria = InitialCriteria
    /\ report = NoReport
    /\ repo_files = {}
    /\ project_type = "none"
    /\ IdleRun
    /\ IdleMain
    /\ IdleScan

\* test_criteria = analyze_test_results(test_results)
AnalyzeTestResults ==
    /\ pc = "start"
    /\ \E results \in TestPayloads :
          /\ test_results' = results
          /\ test_criteria' = analyze_test_results(results)
    /\ pc' = "tests_analyzed"
    /\ UNCHANGED <<almanack_results, readme, almanack_criteria, criteria, report,
                   repo_files, project_type>>
    /\ UNCHANGED <<runVars, mainVars, scanVars>>

\* criteria["Tests"] = test_criteria; test_results is not read again
AssignTests ==
    /\ pc = "tests_analyzed"
    /\ criteria' = [criteria EXCEPT !["Tests"] = test_criteria]
    /\ test_results' = NoTestResults
    /\ pc' = "tests_assigned"
    /\ UNCHANGED <<test_criteria, almanack_results, readme, almanack_criteria,
                   report, repo_files, project_type>>
    /\ UNCHANGED <<runVars, mainVars, scanVars>>

AlmanackCall(metrics) ==
    /\ \E file \in ReadmeFiles :
          /\ file.exists => repo_dir_exists
          /\ readme' = file
          /\ almanack_results' = metrics
          /\ almanack_criteria' = analyze_almanack_results(metrics, file)
    /\ pc' = "almanack_analyzed"
    /\ UNCHANGED <<test_results, test_criteria, criteria, report, repo_files,
                   project_type>>
    /\ UNCHANGED <<runVars, mainVars, scanVars>>

\* almanack_criteria = analyze_almanack_results(almanack_results, repo_dir)
\* for a metrics payload that is a list of records
AnalyzeAlmanackList ==
    /\ pc = "tests_assigned"
    /\ \E metrics \in ListPayloads : AlmanackCall(metrics)

\* the same for a metrics payload that is a keyed map
AnalyzeAlmanackDict ==
    /\ pc = "tests_assigned"
    /\ \E metrics \in DictPayloads : AlmanackCall(metrics)

\* criteria.update(almanack_criteria); the payload and the README are not
\* read again
UpdateCriteria ==
    /\ pc = "almanack_analyzed"
    /\ criteria' = DictUpdate(criteria, almanack_criteria)
    /\ almanack_results' = NoMetrics
    /\ readme' = NoReadme
    /\ pc' = "updated"
    /\ UNCHANGED <<test_results, test_criteria, almanack_criteria, report,
                   repo_files, project_type>>
    /\ UNCHANGED <<runVars, mainVars, scanVars>>

\* the overall score and the returned dict
Aggregate ==
    /\ pc = "updated"
    /\ \E build \in SumBuilds : report' = Aggregation(criteria, build)
    /\ pc' = "done"
    /\ UNCHANGED <<test_results, test_criteria, almanack_results, readme,
                   almanack_criteria, criteria, repo_files, project_type>>
    /\ UNCHANGED <<runVars, mainVars, scanVars>>

-----------------------------------------------------------------------------
(* detect_project_type (bin/run_tests.py) *)

\* project_files, in insertion order
project_files == <<
    [type |-> "python", files |-> {"requirements.txt", "setup.py", "pyproject.toml"}],
    [type |-> "node", files |-> {"package.json"}],
    [type |-> "java-maven", files |-> {"pom.xml"}],
    [type |-> "java-gradle", files |-> {"build.gradle"}],
    [type |-> "r", files |-> {"DESCRIPTION"}],
    [type |-> "rust", files |-> {"Cargo.toml"}],
    [type |-> "go", files |-> {"go.mod"}] >>

\* os.path.exists(os.path.join(repo_dir, filename))
file_exists(present, filename) == filename \in present

\* a plausible slip: the table is walked from its last entry
RECURSIVE DetectFrom_Backwards(_, _, _)
DetectFrom_Backwards(table, present, i) ==
    IF i > Len(table) THEN "unknown"
    ELSE LET entry == table[Len(table) + 1 - i]
         IN  IF \E f \in entry.files : file_exists(present, f) THEN entry.type
             ELSE DetectFrom_Backwards(table, present, i + 1)

RECURSIVE DetectFrom(_, _, _)
DetectFrom(table, present, i) ==
    IF i > Len(table) THEN "unknown"
    ELSE IF \E f \in table[i].files : file_exists(present, f) THEN table[i].type
    ELSE DetectFrom(table, present, i + 1)

detect_project_type(present) == DetectFrom(project_files, present, 1)

\* names a repository root may hold: every marker file and one other file
RepoFileNames ==
    UNION {project_files[i].files : i \in 1..Len(project_files)} \cup {"README.md"}

InitDetect ==
    /\ pc = "detect"
    /\ repo_files \in SUBSET RepoFileNames
    /\ project_type = "none"
    /\ test_results = NoTestResults
    /\ test_criteria = DefaultCriterion
    /\ almanack_results = NoMetrics
    /\ readme = NoReadme
    /\ almanack_criteria = NoAlmanackCriteria
    /\ criteria = InitialCriteria
    /\ report = NoReport
    /\ IdleRun
    /\ IdleMain
    /\ IdleScan

DetectProjectType ==
    /\ pc = "detect"
    /\ project_type' = detect_project_type(repo_files)
    /\ pc' = "detected"
    /\ UNCHANGED <<test_results, test_criteria, almanack_results, readme,
                   almanack_criteria, criteria, report, repo_files>>
    /\ UNCHANGED <<runVars, mainVars, scanVars>>

NextDetect == DetectProjectType

SpecDetect == InitDetect /\ [][NextDetect]_vars

-----------------------------------------------------------------------------
(* The test adapters (bin/run_tests.py) *)

MaxLines == 2       \* longest captured stdout, in lines

\* How subprocess.run can end: the child exits with code zero, the child
\* exits with a non-zero code, or the child cannot be started.
ProcessOutcomes == {"ok", "failed", "spawn_error"}

\* the exception subprocess.run raises for an outcome; with check=False a
\* non-zero exit code raises nothing
RaisedBy(outcome, check) ==
    IF outcome = "spawn_error" THEN "OSError"
    ELSE IF outcome = "failed" /\ check THEN "CalledProcessError"
    ELSE "none"

\* str(e)
str(exc) ==
    IF exc = "CalledProcessError" THEN "Command returned non-zero exit status 1."
    ELSE "[Errno 2] No such file or directory"

\* except subprocess.CalledProcessError, in install_dependencies
\* a plausible slip: the handler is missing
InstallCatches_Nothing(exc) == FALSE

InstallCatches(exc) == exc = "CalledProcessError"

\* except Exception, in run_python_tests and run_node_tests
\* a plausible slip: only a failed command is caught
AdapterCatches_OnlyFailedCommand(exc) == exc = "CalledProcessError"

AdapterCatches(exc) == exc \in {"CalledProcessError", "OSError"}

\* A stdout line of the Python test command is described by what the parser
\* reads from it: the result words that occur in it as substrings (a line
\* "XFAILED" has both "XFAIL" and "FAILED") and the number N of a
\* "collected N items" match, -1 when the line has none.
ResultWords == {"PASSED", "XPASS", "FAILED", "XFAIL", "SKIPPED"}

CollectedCounts == {0, 3}

PythonLines ==
    [has : {{}, {"PASSED"}, {"FAILED"}, {"SKIPPED"}, {"XFAIL"}, {"XPASS"},
            {"FAILED", "XFAIL"}, {"PASSED", "XPASS"}, {"PASSED", "FAILED"},
            {"PASSED", "SKIPPED"}, {"XFAIL", "XPASS"}},
     collected : {-1}]
        \cup [has : {{}}, collected : CollectedCounts]

\* A stdout line of npm test is described by which of "passing" and
\* "failing" occur in line.lower().
NodeLines == [has : SUBSET {"passing", "failing"}, collected : {-1}]

SeqsUpTo(S, n) == UNION {[1..k -> S] : k \in 0..n}

StdErrs == {"", "stderr"}

\* results, as run_python_tests initialises it
PythonResults ==
    [framework |-> "unknown", status |-> "FAIL", total_tests |-> 0,
     passed |-> 0, failed |-> 0, skipped |-> 0, xfailed |-> 0, xpassed |-> 0,
     output |-> <<>>, error |-> ""]

\* results, as run_node_tests initialises it
NodeResults ==
    [framework |-> "unknown", status |-> "FAIL", total_tests |-> 0,
     passed |-> 0, failed |-> 0, output |-> <<>>, error |-> ""]

\* f"Unsupported project type: {project_type}"
UnsupportedMessage ==
    [type \in {"java-maven", "java-gradle", "r", "rust", "go", "unknown"} |->
        CASE type = "java-maven"  -> "Unsupported project type: java-maven"
          [] type = "java-gradle" -> "Unsupported project type: java-gradle"
          [] type = "r"           -> "Unsupported project type: r"
          [] type = "rust"        -> "Unsupported project type: rust"
          [] type = "go"          -> "Unsupported project type: go"
          [] type = "unknown"     -> "Unsupported project type: unknown"]

\* the dict execute_tests returns for any other project type
Unsupported(type) ==
    [framework |-> "unknown", status |-> "FAIL", total_tests |-> 0,
     passed |-> 0, failed |-> 0, output |-> <<>>,
     error |-> UnsupportedMessage[type]]

\* results.pop("skipped", None); results.pop("xfailed", None);
\* results.pop("xpassed", None)
RemoveExtra(res) ==
    [k \in DOMAIN res \ {"skipped", "xfailed", "xpassed"} |-> res[k]]

\* test_patterns: (include, exclude) -> result key
test_patterns == <<
    [include |-> "PASSED",  exclude |-> {"XPASS"}, result_key |-> "passed"],
    [include |-> "FAILED",  exclude |-> {"XFAIL"}, result_key |-> "failed"],
    [include |-> "SKIPPED", exclude |-> {},        result_key |-> "skipped"],
    [include |-> "XFAIL",   exclude |-> {},        result_key |-> "xfailed"],
    [include |-> "XPASS",   exclude |-> {},        result_key |-> "xpassed"] >>

\* a plausible slip: the exclusion is not tested
PatternMatches_NoExclude(pattern, line) == pattern.include \in line.has

\* include in line and exclude not in line; include in line for a pattern
\* of one word
PatternMatches(pattern, line) ==
    /\ pattern.include \in line.has
    /\ pattern.exclude \cap line.has = {}

\* one pass of the loop over stdout lines: the collected count, then every
\* pattern in turn
ParseOne(res, line) ==
    LET counted == IF line.collected >= 0
                   THEN [res EXCEPT !["total_tests"] = line.collected]
                   ELSE res
        hit(k) == \E i \in 1..Len(test_patterns) :
                     /\ test_patterns[i].result_key = k
                     /\ PatternMatches(test_patterns[i], line)
    IN  [k \in DOMAIN counted |-> IF hit(k) THEN counted[k] + 1 ELSE counted[k]]

\* total_tests is inferred from the counters when no count was collected
InferTotal(res) ==
    LET counted_tests == res["passed"] + res["failed"] + res["skipped"]
                            + res["xfailed"] + res["xpassed"]
    IN  IF res["total_tests"] = 0 /\ counted_tests > 0
        THEN [res EXCEPT !["total_tests"] = counted_tests]
        ELSE res

\* a plausible slip: the exit code decides whenever it is non-zero
FinalStatus_ExitCodeFirst(res, returncode) ==
    IF returncode # 0 THEN [res EXCEPT !["status"] = "FAIL"]
    ELSE IF res["failed"] > 0 THEN [res EXCEPT !["status"] = "FAIL"]
    ELSE [res EXCEPT !["status"] = "PASS"]

\* the final status of run_python_tests
FinalStatus(res, returncode) ==
    LET by_counts == IF res["failed"] > 0 THEN [res EXCEPT !["status"] = "FAIL"]
                     ELSE IF res["total_tests"] > 0
                          THEN [res EXCEPT !["status"] = "PASS"]
                          ELSE res
    IN  IF by_counts["total_tests"] = 0
        THEN [by_counts EXCEPT !["status"] =
                               IF returncode = 0 THEN "PASS" ELSE "FAIL"]
        ELSE by_counts

\* the scan of npm test's output
RECURSIVE NodeCount(_, _, _)
NodeCount(res, lines, i) ==
    IF i > Len(lines) THEN res
    ELSE IF "passing" \in lines[i].has
         THEN NodeCount([res EXCEPT !["passed"] = @ + 1,
                                    !["total_tests"] = @ + 1], lines, i + 1)
         ELSE IF "failing" \in lines[i].has
              THEN NodeCount([res EXCEPT !["failed"] = @ + 1,
                                         !["total_tests"] = @ + 1], lines, i + 1)
              ELSE NodeCount(res, lines, i + 1)

\* a plausible slip: the lines are counted whatever the exit code
NodeScan_AnyExitCode(res, proc) ==
    NodeCount(IF proc.returncode = 0 THEN [res EXCEPT !["status"] = "PASS"] ELSE res,
              proc.stdout, 1)

NodeScan(res, proc) ==
    IF proc.returncode = 0
    THEN NodeCount([res EXCEPT !["status"] = "PASS"], proc.stdout, 1)
    ELSE res

\* Repositories the adapters are run on: every combination of the files the
\* adapters themselves look for, and one repository for each other marker
\* file.
AdapterFileNames == {"requirements.txt", "setup.py", "package.json", "tests"}

TestRepos ==
    (SUBSET AdapterFileNames)
        \cup {{f} : f \in {"pyproject.toml", "pom.xml", "build.gradle",
                           "DESCRIPTION", "Cargo.toml", "go.mod"}}
        \cup {{"pyproject.toml", "pytest.ini"}, {"pyproject.toml", "conftest.py"}}

\* execute_tests is called, or run_node_tests is called directly
InitTests ==
    /\ pc \in {"execute_tests", "run_node_tests"}
    /\ repo_files \in TestRepos
    /\ project_type = "none"
    /\ test_results = NoTestResults
    /\ test_criteria = DefaultCriterion
    /\ almanack_results = NoMetrics
    /\ readme = NoReadme
    /\ almanack_criteria = NoAlmanackCriteria
    /\ criteria = InitialCriteria
    /\ report = NoReport
    /\ IdleRun
    /\ IdleMain
    /\ IdleScan

\* execute_tests: detect the project type and dispatch on it
ExecuteTests ==
    /\ pc = "execute_tests"
    /\ project_type' = detect_project_type(repo_files)
    /\ IF project_type' = "python"
       THEN /\ adapter' = "python"
            /\ pc' = "run_python_tests"
            /\ UNCHANGED run_results
       ELSE IF project_type' = "node"
       THEN /\ adapter' = "node"
            /\ pc' = "run_node_tests"
            /\ UNCHANGED run_results
       ELSE /\ adapter' = "unsupported"
            /\ run_results' = Unsupported(project_type')
            /\ pc' = "returned"
    /\ UNCHANGED <<process, spawned, line_no, raised>>
    /\ UNCHANGED <<evalVars, repo_files, mainVars, scanVars>>

\* an exception raised inside the try block of run_python_tests, results
\* being res at that point
PythonRaise(res, exc) ==
    IF AdapterCatches(exc)
    THEN /\ run_results' = RemoveExtra([res EXCEPT !["error"] = str(exc)])
         /\ pc' = "returned"
         /\ UNCHANGED raised
    ELSE /\ run_results' = res
         /\ pc' = "raised"
         /\ raised' = TRUE

\* an exception raised inside the try block of run_node_tests
NodeRaise(res, exc) ==
    IF AdapterCatches(exc)
    THEN /\ run_results' = [res EXCEPT !["error"] = str(exc)]
         /\ pc' = "returned"
         /\ UNCHANGED raised
    ELSE /\ run_results' = res
         /\ pc' = "raised"
         /\ raised' = TRUE

\* run_python_tests: results is initialised, the try block is entered
StartPythonTests ==
    /\ pc = "run_python_tests"
    /\ run_results' = PythonResults
    /\ pc' = "install_requirements"
    /\ UNCHANGED <<process, spawned, line_no, adapter, raised>>
    /\ UNCHANGED <<evalVars, repo_files, project_type, mainVars, scanVars>>

\* one step of install_dependencies, called from run_python_tests: the
\* command is run when its file exists.  A failure that install_dependencies
\* catches makes it return False, and run_python_tests returns results at
\* once; any other exception reaches the handler of run_python_tests.
InstallStep(filename, cmd, next) ==
    /\ IF ~file_exists(repo_files, filename)
       THEN /\ pc' = next
            /\ UNCHANGED <<run_results, spawned, raised>>
       ELSE \E outcome \in ProcessOutcomes :
               /\ spawned' = Append(spawned, [cmd |-> cmd, outcome |-> outcome])
               /\ LET exc == RaisedBy(outcome, TRUE)
                  IN  IF exc = "none"
                      THEN /\ pc' = next
                           /\ UNCHANGED <<run_results, raised>>
                      ELSE IF InstallCatches(exc)
                      THEN /\ run_results' = [run_results EXCEPT !["error"] =
                                              "Failed to install dependencies"]
                           /\ pc' = "returned"
                           /\ UNCHANGED raised
                      ELSE PythonRaise(run_results, exc)
    /\ UNCHANGED <<process, line_no, adapter>>
    /\ UNCHANGED <<evalVars, repo_files, project_type, mainVars, scanVars>>

InstallRequirements ==
    /\ pc = "install_requirements"
    /\ InstallStep("requirements.txt", "pip install -r", "install_setup")

InstallSetup ==
    /\ pc = "install_setup"
    /\ InstallStep("setup.py", "pip install -e", "run_tests")

\* the runner is chosen and the test command is run
RunPythonTestCommand ==
    /\ pc = "run_tests"
    /\ LET framework == IF \E f \in {"pytest.ini", "conftest.py", "tests"} :
                              file_exists(repo_files, f)
                        THEN "pytest" ELSE "unittest"
           chosen == [run_results EXCEPT !["framework"] = framework]
       IN  \E outcome \in ProcessOutcomes :
              /\ spawned' = Append(spawned, [cmd |-> framework, outcome |-> outcome])
              /\ LET exc == RaisedBy(outcome, FALSE)
                 IN  IF exc = "none"
                     THEN \E stdout \in SeqsUpTo(PythonLines, MaxLines), stderr \in StdErrs :
                             /\ process' = [returncode |-> IF outcome = "ok" THEN 0 ELSE 1,
                                            stdout |-> stdout, stderr |-> stderr]
                             /\ run_results' = [chosen EXCEPT !["output"] = stdout,
                                                          !["error"] = stderr]
                             /\ pc' = "parse"
                             /\ UNCHANGED raised
                     ELSE /\ PythonRaise(chosen, exc)
                          /\ UNCHANGED process
    /\ UNCHANGED <<line_no, adapter>>
    /\ UNCHANGED <<evalVars, repo_files, project_type, mainVars, scanVars>>

\* one pass of the loop over process.stdout.splitlines()
ParseLine ==
    /\ pc = "parse"
    /\ line_no <= Len(process.stdout)
    /\ run_results' = ParseOne(run_results, process.stdout[line_no])
    /\ line_no' = line_no + 1
    /\ UNCHANGED <<pc, process, spawned, adapter, raised>>
    /\ UNCHANGED <<evalVars, repo_files, project_type, mainVars, scanVars>>

\* after the loop: the total, the status, the extra fields, the return
FinishPythonTests ==
    /\ pc = "parse"
    /\ line_no > Len(process.stdout)
    /\ run_results' = RemoveExtra(FinalStatus(InferTotal(run_results), process.returncode))
    /\ pc' = "returned"
    /\ UNCHANGED <<process, spawned, line_no, adapter, raised>>
    /\ UNCHANGED <<evalVars, repo_files, project_type, mainVars, scanVars>>

\* run_node_tests: results is initialised and package.json is looked for
StartNodeTests ==
    /\ pc = "run_node_tests"
    /\ IF ~file_exists(repo_files, "package.json")
       THEN /\ run_results' = [NodeResults EXCEPT !["error"] = "No package.json found"]
            /\ pc' = "returned"
       ELSE /\ run_results' = NodeResults
            /\ pc' = "npm_install"
    /\ adapter' = "node"
    /\ UNCHANGED <<process, spawned, line_no, raised>>
    /\ UNCHANGED <<evalVars, repo_files, project_type, mainVars, scanVars>>

\* subprocess.run(["npm", "install"], check=True)
NpmInstall ==
    /\ pc = "npm_install"
    /\ \E outcome \in ProcessOutcomes :
          /\ spawned' = Append(spawned, [cmd |-> "npm install", outcome |-> outcome])
          /\ LET exc == RaisedBy(outcome, TRUE)
             IN  IF exc = "none"
                 THEN /\ pc' = "npm_test"
                      /\ UNCHANGED <<run_results, raised>>
                 ELSE NodeRaise(run_results, exc)
    /\ UNCHANGED <<process, line_no, adapter>>
    /\ UNCHANGED <<evalVars, repo_files, project_type, mainVars, scanVars>>

\* subprocess.run(["npm", "test"]) and the scan of its output
NpmTest ==
    /\ pc = "npm_test"
    /\ \E outcome \in ProcessOutcomes :
          /\ spawned' = Append(spawned, [cmd |-> "npm test", outcome |-> outcome])
          /\ LET exc == RaisedBy(outcome, FALSE)
             IN  IF exc = "none"
                 THEN \E stdout \in SeqsUpTo(NodeLines, MaxLines), stderr \in StdErrs :
                         LET proc == [returncode |-> IF outcome = "ok" THEN 0 ELSE 1,
                                      stdout |-> stdout, stderr |-> stderr]
                         IN  /\ process' = proc
                             /\ run_results' = NodeScan([run_results EXCEPT !["output"] = stdout,
                                                                    !["error"] = stderr],
                                                    proc)
                             /\ pc' = "returned"
                             /\ UNCHANGED raised
                 ELSE /\ NodeRaise(run_results, exc)
                      /\ UNCHANGED process
    /\ UNCHANGED <<line_no, adapter>>
    /\ UNCHANGED <<evalVars, repo_files, project_type, mainVars, scanVars>>

NextTests ==
    \/ ExecuteTests
    \/ StartPythonTests
    \/ InstallRequirements
    \/ InstallSetup
    \/ RunPythonTestCommand
    \/ ParseLine
    \/ FinishPythonTests
    \/ StartNodeTests
    \/ NpmInstall
    \/ NpmTest

SpecTests == InitTests /\ [][NextTests]_vars

-----------------------------------------------------------------------------
(* analyze_readme_content on the text of README.md *)

MaxWords == 3       \* longest README.md, in words

AllPhrases ==
    ProblemPhrases \cup AudiencePhrases \cup RelatedPhrases \cup InstallPhrases
        \cup UsagePhrases

\* the characters of each phrase
Spell ==
    [phrase \in AllPhrases |->
        CASE phrase = "problem" ->
                <<"p", "r", "o", "b", "l", "e", "m">>
          [] phrase = "solve" ->
                <<"s", "o", "l", "v", "e">>
          [] phrase = "purpose" ->
                <<"p", "u", "r", "p", "o", "s", "e">>
          [] phrase = "aim" ->
                <<"a", "i", "m">>
          [] phrase = "goal" ->
                <<"g", "o", "a", "l">>
          [] phrase = "objective" ->
                <<"o", "b", "j", "e", "c", "t", "i", "v", "e">>
          [] phrase = "audience" ->
                <<"a", "u", "d", "i", "e", "n", "c", "e">>
          [] phrase = "users" ->
                <<"u", "s", "e", "r", "s">>
          [] phrase = "intended for" ->
                <<"i", "n", "t", "e", "n", "d", "e", "d", " ", "f", "o", "r">>
          [] phrase = "designed for" ->
                <<"d", "e", "s", "i", "g", "n", "e", "d", " ", "f", "o", "r">>
          [] phrase = "related" ->
                <<"r", "e", "l", "a", "t", "e", "d">>
          [] phrase = "similar" ->
                <<"s", "i", "m", "i", "l", "a", "r">>
          [] phrase = "compared to" ->
                <<"c", "o", "m", "p", "a", "r", "e", "d", " ", "t", "o">>
          [] phrase = "alternative" ->
                <<"a", "l", "t", "e", "r", "n", "a", "t", "i", "v", "e">>
          [] phrase = "install" ->
                <<"i", "n", "s", "t", "a", "l", "l">>
          [] phrase = "setup" ->
                <<"s", "e", "t", "u", "p">>
          [] phrase = "dependencies" ->
                <<"d", "e", "p", "e", "n", "d", "e", "n", "c", "i", "e", "s">>
          [] phrase = "requirements" ->
                <<"r", "e", "q", "u", "i", "r", "e", "m", "e", "n", "t", "s">>
          [] phrase = "pip install" ->
                <<"p", "i", "p", " ", "i", "n", "s", "t", "a", "l", "l">>
          [] phrase = "example" ->
                <<"e", "x", "a", "m", "p", "l", "e">>
          [] phrase = "usage" ->
                <<"u", "s", "a", "g", "e">>
          [] phrase = "how to use" ->
                <<"h", "o", "w", " ", "t", "o", " ", "u", "s", "e">>
          [] phrase = "quick start" ->
                <<"q", "u", "i", "c", "k", " ", "s", "t", "a", "r", "t">>
          [] phrase = "getting started" ->
                <<"g", "e", "t", "t", "i", "n", "g", " ", "s", "t", "a", "r", "t", "e", "d">>]

UpperCase == <<"A", "B", "C", "D", "E", "F", "G", "H", "I", "J", "K", "L", "M", "N", "O", "P", "Q", "R", "S", "T", "U", "V", "W", "X", "Y", "Z">>
LowerCase == <<"a", "b", "c", "d", "e", "f", "g", "h", "i", "j", "k", "l", "m", "n", "o", "p", "q", "r", "s", "t", "u", "v", "w", "x", "y", "z">>

\* str.lower() on one character
LowerChar(c) ==
    IF \E i \in 1..Len(UpperCase) : UpperCase[i] = c
    THEN LowerCase[CHOOSE i \in 1..Len(UpperCase) : UpperCase[i] = c]
    ELSE c

\* f.read().lower()
Lower(text) == [i \in 1..Len(text) |-> LowerChar(text[i])]

\* phrase in content, on character sequences
Occurs(phrase, content) ==
    \E i \in 1..(Len(content) - Len(phrase) + 1) :
        SubSeq(content, i, i + Len(phrase) - 1) = phrase

\* the phrases that occur in a lower-cased text
PhrasesIn(content) == {phrase \in AllPhrases : Occurs(Spell[phrase], content)}

\* words a README.md is written with: "Purpose", "USERS", "alternative",
\* "Install", "example", "claim", "quick", "start", "hello"
ReadmeWords ==
    {<<"P", "u", "r", "p", "o", "s", "e">>,
     <<"U", "S", "E", "R", "S">>,
     <<"a", "l", "t", "e", "r", "n", "a", "t", "i", "v", "e">>,
     <<"I", "n", "s", "t", "a", "l", "l">>,
     <<"e", "x", "a", "m", "p", "l", "e">>,
     <<"c", "l", "a", "i", "m">>,
     <<"q", "u", "i", "c", "k">>,
     <<"s", "t", "a", "r", "t">>,
     <<"h", "e", "l", "l", "o">>}

\* the words joined by single spaces
RECURSIVE JoinFrom(_, _)
JoinFrom(words, i) ==
    IF i > Len(words) THEN <<>>
    ELSE IF i = Len(words) THEN words[i]
    ELSE words[i] \o <<" ">> \o JoinFrom(words, i + 1)

ReadmeTexts ==
    {NoText} \cup {[exists |-> TRUE, text |-> JoinFrom(words, 1)] :
                      words \in UNION {[1..k -> ReadmeWords] : k \in 0..MaxWords}}

InitScan ==
    /\ pc = "scan"
    /\ readme_text \in ReadmeTexts
    /\ signals = NoSignals
    /\ repo_files = {}
    /\ project_type = "none"
    /\ test_results = NoTestResults
    /\ test_criteria = DefaultCriterion
    /\ almanack_results = NoMetrics
    /\ readme = NoReadme
    /\ almanack_criteria = NoAlmanackCriteria
    /\ criteria = InitialCriteria
    /\ report = NoReport
    /\ IdleRun
    /\ IdleMain

\* analyze_readme_content(repo_dir)
AnalyzeReadme ==
    /\ pc = "scan"
    /\ LET file == [exists |-> readme_text.exists,
                    content |-> PhrasesIn(Lower(readme_text.text))]
       IN  /\ readme' = file
           /\ signals' = analyze_readme_content(file)
    /\ pc' = "scanned"
    /\ UNCHANGED <<test_results, test_criteria, almanack_results,
                   almanack_criteria, criteria, report>>
    /\ UNCHANGED <<readme_text, repo_files, project_type, runVars, mainVars>>

NextScan == AnalyzeReadme

SpecScan == InitScan /\ [][NextScan]_vars

-----------------------------------------------------------------------------
(* The entry point of analyze_joss.py *)

\* what the file named by an argument can be: well-formed JSON, text that
\* json.load rejects, or no file at all
InputFileStates == {"json", "malformed", "missing"}

InitMain ==
    /\ pc = "main"
    /\ argc \in {4, 5}
    /\ almanack_results_file \in InputFileStates
    /\ test_results_file \in InputFileStates
    /\ repo_dir_exists \in BOOLEAN
    /\ exit_status = -1
    /\ output_file = NoOutput
    /\ repo_files = {}
    /\ project_type = "none"
    /\ test_results = NoTestResults
    /\ test_criteria = DefaultCriterion
    /\ almanack_results = NoMetrics
    /\ readme = NoReadme
    /\ almanack_criteria = NoAlmanackCriteria
    /\ criteria = InitialCriteria
    /\ report = NoReport
    /\ IdleRun
    /\ IdleScan

\* if len(sys.argv) != 5: usage, sys.exit(1)
CheckArguments ==
    /\ pc = "main"
    /\ IF argc # 5
       THEN /\ exit_status' = 1
            /\ pc' = "exit"
       ELSE /\ pc' = "load"
            /\ UNCHANGED exit_status
    /\ UNCHANGED <<argc, almanack_results_file, test_results_file, repo_dir_exists,
                   output_file>>
    /\ UNCHANGED <<evalVars, repo_files, project_type, runVars, scanVars>>

\* a plausible slip: the test-results file is not read inside the try block
LoadInputs_IgnoresTestFile ==
    /\ pc = "load"
    /\ IF almanack_results_file = "json"
       THEN /\ pc' = "start"
            /\ UNCHANGED exit_status
       ELSE /\ exit_status' = 1
            /\ pc' = "exit"
    /\ UNCHANGED <<argc, almanack_results_file, test_results_file, repo_dir_exists,
                   output_file>>
    /\ UNCHANGED <<evalVars, repo_files, project_type, runVars, scanVars>>

\* both files are opened and parsed; an exception of open or json.load is
\* caught by the handler of the entry point, which exits with status 1;
\* otherwise analyze_joss_criteria is entered
LoadInputs ==
    /\ pc = "load"
    /\ IF almanack_results_file = "json" /\ test_results_file = "json"
       THEN /\ pc' = "start"
            /\ UNCHANGED exit_status
       ELSE /\ exit_status' = 1
            /\ pc' = "exit"
    /\ UNCHANGED <<argc, almanack_results_file, test_results_file, repo_dir_exists,
                   output_file>>
    /\ UNCHANGED <<evalVars, repo_files, project_type, runVars, scanVars>>

\* the report is written and the entry point ends
WriteReport ==
    /\ pc = "done"
    /\ output_file' = [written |-> TRUE, data |-> report]
    /\ exit_status' = 0
    /\ pc' = "exit"
    /\ UNCHANGED <<argc, almanack_results_file, test_results_file, repo_dir_exists>>
    /\ UNCHANGED <<evalVars, repo_files, project_type, runVars, scanVars>>

NextMain ==
    \/ CheckArguments
    \/ LoadInputs
    \/ AnalyzeTestResults
    \/ AssignTests
    \/ AnalyzeAlmanackList
    \/ AnalyzeAlmanackDict
    \/ UpdateCriteria
    \/ Aggregate
    \/ WriteReport

SpecMain == InitMain /\ [][NextMain]_vars

-----------------------------------------------------------------------------
(* Specification of the evaluator *)

Next ==
    \/ AnalyzeTestResults
    \/ AssignTests
    \/ AnalyzeAlmanackList
    \/ AnalyzeAlmanackDict
    \/ UpdateCriteria
    \/ Aggregate

Spec == Init /\ [][Next]_vars

-----------------------------------------------------------------------------
(* Properties of the evaluator *)

\* the (status, score) pair of a criterion
Pair(c) == <<c.status, c.score>>

\* score >= 0.3
AtLeastNeedsImprovement(c) == ~DblLess(c.score, SCORE_NEEDS_IMPROVEMENT)

\* C1: whatever the metrics payload (list, keyed map, empty, any metric
\* missing) and the test-result payload (empty included), the returned
\* report has exactly the five criteria Statement of Need, Installation
\* Instructions, Example Usage, Community Guidelines and Tests, each of them
\* a complete criterion, and max_score = 5.
C1_AlwaysFiveCriteria ==
    /\ DOMAIN criteria =
          {"Statement of Need", "Installation Instructions", "Example Usage",
           "Community Guidelines", "Tests"}
    /\ pc = "done" =>
          /\ report.criteria = criteria
          /\ \A n \in DOMAIN report.criteria :
                /\ DOMAIN report.criteria[n] = {"status", "score", "details"}
                /\ report.criteria[n].status \in Status
          /\ report.max_score = 5

\* C1 witness: a report returned for an empty metrics payload and an empty
\* test-result payload (no criterion was analyzed)
C1_Witness ==
    /\ pc = "done"
    /\ \A n \in DOMAIN report.criteria : report.criteria[n].details = NOT_ANALYZED

\* C2 as stated: in every report none of the four documentation criteria
\* scores 0.0 (each scores at least 0.3), and Tests scores 0.0 only when
\* total_tests is 0.
C2_Original ==
    /\ pc = "done" =>
          \A n \in AlmanackNames : AtLeastNeedsImprovement(report.criteria[n])
    /\ pc = "tests_analyzed" /\ test_criteria.score = SCORE_NONE =>
          DictGet(test_results, "total_tests", 0) = 0

\* C2 amended: for a non-empty metrics payload each of the four documentation
\* criteria scores at least 0.3; for an empty metrics payload all four keep
\* the default score 0.0; Tests scores 0.0 only when total_tests is 0 (or the
\* test result has no total_tests).
C2_ZeroOnlyWhenNotAnalyzed ==
    /\ pc = "almanack_analyzed" /\ NonEmpty(almanack_results) =>
          \A n \in AlmanackNames : AtLeastNeedsImprovement(almanack_criteria[n])
    /\ pc = "almanack_analyzed" /\ ~NonEmpty(almanack_results) =>
          \A n \in AlmanackNames : almanack_criteria[n].score = SCORE_NONE
    /\ pc = "done" =>
          \/ \A n \in AlmanackNames : AtLeastNeedsImprovement(report.criteria[n])
          \/ \A n \in AlmanackNames : report.criteria[n].score = SCORE_NONE
    /\ pc = "tests_analyzed" /\ test_criteria.score = SCORE_NONE =>
          DictGet(test_results, "total_tests", 0) = 0

\* C2 witness: a non-empty metrics payload in which no metric of interest is
\* truthy, so that every documentation criterion is at its lowest: 0.3
C2_Witness ==
    /\ pc = "almanack_analyzed"
    /\ NonEmpty(almanack_results)
    /\ \A n \in AlmanackNames : almanack_criteria[n].score = SCORE_NEEDS_IMPROVEMENT

FixedTable == {<<GOOD, SCORE_GOOD>>, <<OK, SCORE_OK>>,
               <<NEEDS_IMPROVEMENT, SCORE_NEEDS_IMPROVEMENT>>}

\* C3 as stated: every criterion of every report is GOOD/1.0, OK/0.7 or
\* NEEDS_IMPROVEMENT/0.3, or NEEDS_IMPROVEMENT/0.0 for Tests only.
C3_Original ==
    pc = "done" =>
        \A n \in DOMAIN report.criteria :
            \/ Pair(report.criteria[n]) \in FixedTable
            \/ /\ n = "Tests"
               /\ Pair(report.criteria[n]) = <<NEEDS_IMPROVEMENT, SCORE_NONE>>

\* C3 amended: every criterion is GOOD/1.0, OK/0.7, NEEDS_IMPROVEMENT/0.3 or
\* NEEDS_IMPROVEMENT/0.0; the last pair is produced for Tests exactly when
\* total_tests is not positive, and for the four documentation criteria
\* exactly when the metrics payload is empty (the untouched defaults).
C3_LockStep ==
    /\ pc = "done" =>
          \A n \in DOMAIN report.criteria :
              Pair(report.criteria[n]) \in
                  FixedTable \cup {<<NEEDS_IMPROVEMENT, SCORE_NONE>>}
    /\ pc = "tests_analyzed" =>
          /\ Pair(test_criteria) \in FixedTable \cup {<<NEEDS_IMPROVEMENT, SCORE_NONE>>}
          /\ Pair(test_criteria) = <<NEEDS_IMPROVEMENT, SCORE_NONE>>
                <=> DictGet(test_results, "total_tests", 0) = 0
    /\ pc = "almanack_analyzed" =>
          \A n \in AlmanackNames :
              /\ Pair(almanack_criteria[n]) \in
                    FixedTable \cup {<<NEEDS_IMPROVEMENT, SCORE_NONE>>}
              /\ Pair(almanack_criteria[n]) = <<NEEDS_IMPROVEMENT, SCORE_NONE>>
                    <=> ~NonEmpty(almanack_results)

\* C3 witness: a report that holds all three pairs of the table at once
C3_Witness ==
    /\ pc = "done"
    /\ \A pair \in FixedTable :
          \E n \in DOMAIN report.criteria : Pair(report.criteria[n]) = pair

\* C4: for a test result with total_tests >= 0 and passed >= 0 the Tests
\* criterion is NEEDS_IMPROVEMENT/0.0 when total_tests = 0, else GOOD/1.0 when
\* passed/total_tests >= 0.9, OK/0.7 when 0.7 <= passed/total_tests < 0.9 and
\* NEEDS_IMPROVEMENT/0.3 when passed/total_tests < 0.7 (the ratios compared
\* exactly, as fractions).
C4_TestsThresholds ==
    pc = "tests_analyzed" /\ {"total_tests", "passed"} \subseteq DOMAIN test_results =>
        LET total  == test_results["total_tests"]
            passed == test_results["passed"]
        IN  Pair(test_criteria) =
               IF total = 0 THEN <<NEEDS_IMPROVEMENT, SCORE_NONE>>
               ELSE IF 10 * passed >= 9 * total THEN <<GOOD, SCORE_GOOD>>
               ELSE IF 10 * passed >= 7 * total THEN <<OK, SCORE_OK>>
               ELSE <<NEEDS_IMPROVEMENT, SCORE_NEEDS_IMPROVEMENT>>

\* C4 witness: 9 of 10 tests passed, exactly on the GOOD threshold
C4_Witness ==
    /\ pc = "tests_analyzed"
    /\ DictGet(test_results, "total_tests", 0) = 10
    /\ DictGet(test_results, "passed", 0) = 9
    /\ Pair(test_criteria) = <<GOOD, SCORE_GOOD>>

\* the payload under analysis gives the named metric a truthy value: the
\* first record of that name in a list, the entry of that key in a map
MetricIsTruthy(name) ==
    IF almanack_results.shape = "list"
    THEN \E i \in 1..Len(almanack_results.items) :
            /\ almanack_results.items[i].name = name
            /\ Truthy(almanack_results.items[i].result)
            /\ \A j \in 1..(i - 1) : almanack_results.items[j].name # name
    ELSE /\ name \in DOMAIN almanack_results.items
         /\ Truthy(almanack_results.items[name])

BySignal(signal) == IF signal THEN <<GOOD, SCORE_GOOD>> ELSE <<OK, SCORE_OK>>

BothDocMetrics == MetricIsTruthy(README_METRIC) /\ MetricIsTruthy(COMMON_DOCS_METRIC)

\* C5 as stated: Installation Instructions and Example Usage are
\* NEEDS_IMPROVEMENT/0.3 whenever has-README or has-common-docs is missing or
\* falsy, and follow their document signal when both are truthy.
C5_Original ==
    pc = "almanack_analyzed" =>
        /\ ~BothDocMetrics =>
              /\ Pair(almanack_criteria["Installation Instructions"])
                    = <<NEEDS_IMPROVEMENT, SCORE_NEEDS_IMPROVEMENT>>
              /\ Pair(almanack_criteria["Example Usage"])
                    = <<NEEDS_IMPROVEMENT, SCORE_NEEDS_IMPROVEMENT>>
        /\ BothDocMetrics =>
              /\ Pair(almanack_criteria["Installation Instructions"])
                    = BySignal(analyze_readme_content(readme).installation)
              /\ Pair(almanack_criteria["Example Usage"])
                    = BySignal(analyze_readme_content(readme).example_usage)

\* C5 amended: for a non-empty metrics payload, Installation Instructions and
\* Example Usage are NEEDS_IMPROVEMENT/0.3 whenever has-README or
\* has-common-docs is missing or falsy, whatever the document contains, and
\* follow their document signal (true GOOD/1.0, false OK/0.7) when both are
\* truthy; for an empty metrics payload both stay at the default
\* NEEDS_IMPROVEMENT/0.0.
C5_ConjunctiveGate ==
    pc = "almanack_analyzed" =>
        /\ NonEmpty(almanack_results) /\ ~BothDocMetrics =>
              /\ Pair(almanack_criteria["Installation Instructions"])
                    = <<NEEDS_IMPROVEMENT, SCORE_NEEDS_IMPROVEMENT>>
              /\ Pair(almanack_criteria["Example Usage"])
                    = <<NEEDS_IMPROVEMENT, SCORE_NEEDS_IMPROVEMENT>>
        /\ ~NonEmpty(almanack_results) =>
              /\ Pair(almanack_criteria["Installation Instructions"])
                    = <<NEEDS_IMPROVEMENT, SCORE_NONE>>
              /\ Pair(almanack_criteria["Example Usage"])
                    = <<NEEDS_IMPROVEMENT, SCORE_NONE>>
        /\ BothDocMetrics =>
              /\ Pair(almanack_criteria["Installation Instructions"])
                    = BySignal(analyze_readme_content(readme).installation)
              /\ Pair(almanack_criteria["Example Usage"])
                    = BySignal(analyze_readme_content(readme).example_usage)

\* C5 witness: has-README is truthy and the README has installation and usage
\* keywords, but has-common-docs is not truthy: both criteria are 0.3
C5_Witness ==
    /\ pc = "almanack_analyzed"
    /\ MetricIsTruthy(README_METRIC)
    /\ ~MetricIsTruthy(COMMON_DOCS_METRIC)
    /\ analyze_readme_content(readme).installation
    /\ analyze_readme_content(readme).example_usage
    /\ almanack_criteria["Installation Instructions"].score = SCORE_NEEDS_IMPROVEMENT
    /\ almanack_criteria["Example Usage"].score = SCORE_NEEDS_IMPROVEMENT

\* C6 as stated: Statement of Need is NEEDS_IMPROVEMENT/0.3 when has-README is
\* missing or falsy, and GOOD/1.0 or OK/0.7 by the statement_of_need signal
\* when has-README is truthy.
C6_Original ==
    pc = "almanack_analyzed" =>
        Pair(almanack_criteria["Statement of Need"]) =
            IF MetricIsTruthy(README_METRIC)
            THEN BySignal(analyze_readme_content(readme).statement_of_need)
            ELSE <<NEEDS_IMPROVEMENT, SCORE_NEEDS_IMPROVEMENT>>

\* C6 amended: for a non-empty metrics payload, Statement of Need is
\* NEEDS_IMPROVEMENT/0.3 when has-README is missing or falsy, and GOOD/1.0 or
\* OK/0.7 by the statement_of_need signal when has-README is truthy, whatever
\* has-common-docs is; for an empty metrics payload it stays at the default
\* NEEDS_IMPROVEMENT/0.0.
C6_StatementOfNeed ==
    pc = "almanack_analyzed" =>
        Pair(almanack_criteria["Statement of Need"]) =
            IF MetricIsTruthy(README_METRIC)
            THEN BySignal(analyze_readme_content(readme).statement_of_need)
            ELSE IF NonEmpty(almanack_results)
            THEN <<NEEDS_IMPROVEMENT, SCORE_NEEDS_IMPROVEMENT>>
            ELSE <<NEEDS_IMPROVEMENT, SCORE_NONE>>

\* C6 witness: has-README truthy, has-common-docs not, and a README without a
\* full statement of need: OK/0.7, not NEEDS_IMPROVEMENT
C6_Witness ==
    /\ pc = "almanack_analyzed"
    /\ MetricIsTruthy(README_METRIC)
    /\ ~MetricIsTruthy(COMMON_DOCS_METRIC)
    /\ readme.exists
    /\ ~analyze_readme_content(readme).statement_of_need
    /\ Pair(almanack_criteria["Statement of Need"]) = <<OK, SCORE_OK>>

\* how many of has-contributing and has-code-of-conduct are truthy
GuidelineCount ==
    (IF MetricIsTruthy(CONTRIBUTING_METRIC) THEN 1 ELSE 0)
        + (IF MetricIsTruthy(CODE_OF_CONDUCT_METRIC) THEN 1 ELSE 0)

\* C7 as stated: Community Guidelines is GOOD/1.0 when has-contributing and
\* has-code-of-conduct are both truthy, OK/0.7 when exactly one is, and
\* NEEDS_IMPROVEMENT/0.3 when neither is (or both are absent).
C7_Original ==
    pc = "almanack_analyzed" =>
        Pair(almanack_criteria["Community Guidelines"]) =
            IF GuidelineCount = 2 THEN <<GOOD, SCORE_GOOD>>
            ELSE IF GuidelineCount = 1 THEN <<OK, SCORE_OK>>
            ELSE <<NEEDS_IMPROVEMENT, SCORE_NEEDS_IMPROVEMENT>>

\* C7 amended: for a non-empty metrics payload, Community Guidelines is
\* GOOD/1.0 when both metrics are truthy, OK/0.7 when exactly one is and
\* NEEDS_IMPROVEMENT/0.3 when neither is; for an empty metrics payload it
\* stays at the default NEEDS_IMPROVEMENT/0.0.
C7_CommunityGuidelines ==
    pc = "almanack_analyzed" =>
        Pair(almanack_criteria["Community Guidelines"]) =
            IF GuidelineCount = 2 THEN <<GOOD, SCORE_GOOD>>
            ELSE IF GuidelineCount = 1 THEN <<OK, SCORE_OK>>
            ELSE IF NonEmpty(almanack_results)
            THEN <<NEEDS_IMPROVEMENT, SCORE_NEEDS_IMPROVEMENT>>
            ELSE <<NEEDS_IMPROVEMENT, SCORE_NONE>>

\* C7 witness: has-code-of-conduct alone is truthy: OK/0.7
C7_Witness ==
    /\ pc = "almanack_analyzed"
    /\ ~MetricIsTruthy(CONTRIBUTING_METRIC)
    /\ MetricIsTruthy(CODE_OF_CONDUCT_METRIC)
    /\ Pair(almanack_criteria["Community Guidelines"]) = <<OK, SCORE_OK>>

\* the five scores of the report, in the key order of the criteria dict
ReportScores ==
    << report.criteria["Statement of Need"].score,
       report.criteria["Installation Instructions"].score,
       report.criteria["Example Usage"].score,
       report.criteria["Community Guidelines"].score,
       report.criteria["Tests"].score >>

\* the scores added one after the other, each addition rounded
AddedInOrder(scores) ==
    FloatAdd(FloatAdd(FloatAdd(FloatAdd(FloatAdd(DblZero,
        scores[1]), scores[2]), scores[3]), scores[4]), scores[5])

\* the exact sum of the scores, rounded once
RoundedOnce(scores) ==
    RoundDbl(LimbAdd(LimbAdd(LimbAdd(LimbAdd(
        scores[1], scores[2]), scores[3]), scores[4]), scores[5]), 0, 1)

Permutations5 == {f \in [1..5 -> 1..5] : \A i, j \in 1..5 : f[i] = f[j] => i = j}

HowMany(scores, x) == Cardinality({i \in 1..5 : scores[i] = x})

\* the scores 1.0, 0.7, 0.3, 1.0, 0.0 in some order
ExampleScores(scores) ==
    /\ HowMany(scores, SCORE_GOOD) = 2
    /\ HowMany(scores, SCORE_OK) = 1
    /\ HowMany(scores, SCORE_NEEDS_IMPROVEMENT) = 1
    /\ HowMany(scores, SCORE_NONE) = 1

DblThree == <<393216, 0, 0>>                \* 3.0
DblSixTenths == <<78643, 209715, 209712>>   \* 0.6

\* C8 as stated: total_score is the sum of the five scores, max_score is 5,
\* overall_score is total_score / 5, and the total is the same in whatever
\* order the five scores are added.
C8_Original ==
    pc = "done" =>
        /\ report.total_score \in {AddedInOrder(ReportScores), RoundedOnce(ReportScores)}
        /\ report.max_score = 5
        /\ report.overall_score = FloatDiv(report.total_score, 5)
        /\ \A f \in Permutations5 :
              AddedInOrder([i \in 1..5 |-> ReportScores[f[i]]]) = report.total_score

\* C8 amended: total_score is the double-precision sum of the five scores
\* taken in the fixed key order Statement of Need, Installation Instructions,
\* Example Usage, Community Guidelines, Tests (each addition rounded, or the
\* exact sum rounded once where the interpreter's sum compensates), max_score
\* is 5 and overall_score is total_score / 5; the scores 1.0, 0.7, 0.3, 1.0,
\* 0.0 give 3.0 and 0.6.  The same scores added in another order can give a
\* total that differs in its last bit.
C8_Aggregation ==
    pc = "done" =>
        /\ report.total_score \in {AddedInOrder(ReportScores), RoundedOnce(ReportScores)}
        /\ report.max_score = 5
        /\ report.overall_score = FloatDiv(report.total_score, 5)
        /\ ExampleScores(ReportScores) =>
              /\ report.total_score = DblThree
              /\ report.overall_score = DblSixTenths

\* C8 witness: a report whose scores are 1.0, 0.7, 0.3, 1.0 and 0.0
C8_Witness ==
    /\ pc = "done"
    /\ ExampleScores(ReportScores)
    /\ report.overall_score = DblSixTenths

\* the keyed map that holds, for each name of a list of records, the result
\* of the first record of that name
KeyedMapOf(items) ==
    [name \in {items[i].name : i \in 1..Len(items)} |->
        LET first == CHOOSE i \in 1..Len(items) :
                        /\ items[i].name = name
                        /\ \A j \in 1..(i - 1) : items[j].name # name
        IN  items[first].result]

QueryNames == MetricNames \cup {"repo-is-citable"}

\* C9: a list of {name, result} records and the keyed map of its first
\* records answer every lookup alike, a name in neither is None in both, and
\* the evaluator computes the same criteria from either shape.
C9_ShapesAgree ==
    pc = "almanack_analyzed" /\ almanack_results.shape = "list" =>
        LET keyed == [shape |-> "dict", items |-> KeyedMapOf(almanack_results.items)]
        IN  /\ \A name \in QueryNames :
                  /\ get_metric_value(almanack_results, name)
                        = get_metric_value(keyed, name)
                  /\ name \notin DOMAIN keyed.items =>
                        get_metric_value(almanack_results, name) = "None"
                  /\ name \in DOMAIN keyed.items =>
                        get_metric_value(almanack_results, name) = keyed.items[name]
            /\ analyze_almanack_results(keyed, readme) = almanack_criteria

\* C9 witness: a list with two records of the same name and different
\* results, the first of them truthy, has been evaluated
C9_Witness ==
    /\ pc = "almanack_analyzed"
    /\ almanack_results.shape = "list"
    /\ Len(almanack_results.items) = 2
    /\ almanack_results.items[1].name = README_METRIC
    /\ almanack_results.items[2].name = README_METRIC
    /\ almanack_results.items[1].result = "True"
    /\ almanack_results.items[2].result = "False"
    /\ almanack_criteria["Statement of Need"].score # SCORE_NEEDS_IMPROVEMENT

-----------------------------------------------------------------------------
(* Properties of the ecosystem detector *)

Has(markers) == repo_files \cap markers # {}

\* C10: detect_project_type returns the first ecosystem in the order python,
\* node, java-maven, java-gradle, r, rust, go one of whose marker files is
\* present, and unknown exactly when no marker file is present.
C10_FirstEcosystem ==
    pc = "detected" =>
        /\ project_type =
              IF Has({"requirements.txt", "setup.py", "pyproject.toml"}) THEN "python"
              ELSE IF Has({"package.json"}) THEN "node"
              ELSE IF Has({"pom.xml"}) THEN "java-maven"
              ELSE IF Has({"build.gradle"}) THEN "java-gradle"
              ELSE IF Has({"DESCRIPTION"}) THEN "r"
              ELSE IF Has({"Cargo.toml"}) THEN "rust"
              ELSE IF Has({"go.mod"}) THEN "go"
              ELSE "unknown"
        /\ project_type = "unknown" <=>
              ~Has({"requirements.txt", "setup.py", "pyproject.toml", "package.json",
                    "pom.xml", "build.gradle", "DESCRIPTION", "Cargo.toml", "go.mod"})
        /\ repo_files \in {{"go.mod"}, {"go.mod", "README.md"}} => project_type = "go"

\* C10 witness: markers of two ecosystems are present and the earlier one
\* is returned
C10_Witness ==
    /\ pc = "detected"
    /\ repo_files = {"package.json", "go.mod"}
    /\ project_type = "node"

-----------------------------------------------------------------------------
(* Properties of the test adapters *)

ResultKeys == {"framework", "status", "total_tests", "passed", "failed",
               "output", "error"}

ZeroCounts(res) ==
    /\ res["total_tests"] = 0
    /\ res["passed"] = 0
    /\ res["failed"] = 0

InstallCommands == {"pip install -r", "pip install -e"}
TestRunners == {"pytest", "unittest"}

Returned == pc = "returned"

\* C11: execute_tests never raises and what it returns always has the fields
\* of a test result, with a PASS or FAIL status and counts that are natural
\* numbers, whatever the project type and however the child processes end;
\* for a project type other than python and node it returns without having
\* started any process, with status FAIL, zero counts and the error
\* "Unsupported project type: <type>".
C11_AlwaysAResult ==
    /\ ~raised
    /\ pc # "raised"
    /\ Returned =>
          /\ ResultKeys \subseteq DOMAIN run_results
          /\ run_results["status"] \in {"PASS", "FAIL"}
          /\ \A k \in {"total_tests", "passed", "failed"} : run_results[k] \in Nat
          /\ project_type \notin {"none", "python", "node"} =>
                adapter = "unsupported"
    /\ Returned /\ adapter = "unsupported" =>
          /\ project_type \notin {"python", "node"}
          /\ spawned = <<>>
          /\ run_results["status"] = "FAIL"
          /\ ZeroCounts(run_results)
          /\ run_results["error"] # ""
          /\ project_type = "unknown" =>
                run_results["error"] = "Unsupported project type: unknown"
          /\ project_type = "go" =>
                run_results["error"] = "Unsupported project type: go"
          /\ project_type = "rust" =>
                run_results["error"] = "Unsupported project type: rust"
          /\ project_type = "r" =>
                run_results["error"] = "Unsupported project type: r"
          /\ project_type = "java-maven" =>
                run_results["error"] = "Unsupported project type: java-maven"
          /\ project_type = "java-gradle" =>
                run_results["error"] = "Unsupported project type: java-gradle"

\* C11 witness: the test command of a Python project could not be started
\* and execute_tests has returned a result
C11_Witness ==
    /\ Returned
    /\ adapter = "python"
    /\ Len(spawned) = 1
    /\ spawned[1].cmd = "pytest"
    /\ spawned[1].outcome = "spawn_error"
    /\ run_results["status"] = "FAIL"
    /\ ~raised

\* C12: in run_python_tests every installation command is started before
\* the runner is chosen and started, and one is started for each of
\* requirements.txt and setup.py that exists; an installation command that
\* exits with a failure is the last process started, and the adapter then
\* returns status FAIL, error "Failed to install dependencies" and zero
\* counts without raising.
C12_InstallFirst ==
    adapter = "python" =>
        /\ \A i, j \in DOMAIN spawned :
              spawned[i].cmd \in TestRunners /\ spawned[j].cmd \in InstallCommands
                  => j < i
        /\ pc \in {"install_requirements", "install_setup", "run_tests"} =>
              /\ run_results["framework"] = "unknown"
              /\ \A i \in DOMAIN spawned : spawned[i].cmd \in InstallCommands
        /\ \A i \in DOMAIN spawned : spawned[i].cmd \in TestRunners =>
              /\ "requirements.txt" \in repo_files =>
                    \E j \in 1..(i - 1) : spawned[j] = [cmd |-> "pip install -r",
                                                       outcome |-> "ok"]
              /\ "setup.py" \in repo_files =>
                    \E j \in 1..(i - 1) : spawned[j] = [cmd |-> "pip install -e",
                                                       outcome |-> "ok"]
        /\ \A i \in DOMAIN spawned :
              spawned[i].cmd \in InstallCommands /\ spawned[i].outcome = "failed" =>
                  /\ i = Len(spawned)
                  /\ Returned
                  /\ ~raised
                  /\ run_results["status"] = "FAIL"
                  /\ run_results["error"] = "Failed to install dependencies"
                  /\ ZeroCounts(run_results)

\* C12 witness: requirements.txt and setup.py both exist, the first
\* installation command failed and nothing else was started
C12_Witness ==
    /\ Returned
    /\ adapter = "python"
    /\ {"requirements.txt", "setup.py"} \subseteq repo_files
    /\ spawned = <<[cmd |-> "pip install -r", outcome |-> "failed"]>>
    /\ run_results["error"] = "Failed to install dependencies"

\* C13, as stated: whatever path run_python_tests returns by, the keys of
\* the returned record are exactly framework, status, total_tests, passed,
\* failed, output and error.
C13_Original ==
    Returned /\ adapter = "python" => DOMAIN run_results = ResultKeys

\* the lines of the captured stdout that satisfy P
LinesWith(P(_)) ==
    Cardinality({i \in DOMAIN process.stdout : P(process.stdout[i])})

IsPassed(line) == "PASSED" \in line.has /\ "XPASS" \notin line.has
IsFailed(line) == "FAILED" \in line.has /\ "XFAIL" \notin line.has
IsSkipped(line) == "SKIPPED" \in line.has
IsXFailed(line) == "XFAIL" \in line.has
IsXPassed(line) == "XPASS" \in line.has

\* the number of the last "collected N items" line, -1 when there is none
RECURSIVE LastCollected(_, _)
LastCollected(lines, i) ==
    IF i = 0 THEN -1
    ELSE IF lines[i].collected >= 0 THEN lines[i].collected
    ELSE LastCollected(lines, i - 1)

TestCommandRan ==
    \E i \in DOMAIN spawned :
        spawned[i].cmd \in TestRunners /\ spawned[i].outcome # "spawn_error"

\* C16: when the test command of run_python_tests has run, total_tests is
\* the collected number when that is non-zero and else the sum of the five
\* counters, and the status is FAIL if failed > 0, else PASS if
\* total_tests > 0, else PASS exactly when the exit code is zero.
C16_FinalStatus ==
    Returned /\ adapter = "python" /\ TestCommandRan =>
        LET n == LastCollected(process.stdout, Len(process.stdout))
            failed == LinesWith(IsFailed)
            counted == LinesWith(IsPassed) + failed + LinesWith(IsSkipped)
                          + LinesWith(IsXFailed) + LinesWith(IsXPassed)
            total == IF n > 0 THEN n ELSE counted
        IN  /\ run_results["failed"] = failed
            /\ run_results["passed"] = LinesWith(IsPassed)
            /\ run_results["total_tests"] = total
            /\ run_results["status"] =
                  IF failed > 0 THEN "FAIL"
                  ELSE IF total > 0 THEN "PASS"
                  ELSE IF process.returncode = 0 THEN "PASS"
                  ELSE "FAIL"

\* C16 witness: the exit code is non-zero, tests were counted, none failed,
\* and the status is PASS
C16_Witness ==
    /\ Returned
    /\ adapter = "python"
    /\ TestCommandRan
    /\ process.returncode = 1
    /\ run_results["total_tests"] = 2
    /\ run_results["failed"] = 0
    /\ run_results["status"] = "PASS"

Counted(res) ==
    res["passed"] + res["failed"] + res["skipped"] + res["xfailed"] + res["xpassed"]

\* C17, as stated: parsing one stdout line increments at most one of the
\* five counters.
C17_Original ==
    [][pc = "parse" /\ pc' = "parse" =>
           Counted(run_results') <= Counted(run_results) + 1]_vars

\* the lines already parsed that satisfy P
ParsedWith(P(_)) ==
    Cardinality({i \in 1..(line_no - 1) : P(process.stdout[i])})

\* C17: while stdout is parsed each counter is the number of parsed lines
\* that hold its word: passed counts the lines with PASSED and without
\* XPASS, failed the lines with FAILED and without XFAIL, skipped, xfailed
\* and xpassed the lines with SKIPPED, XFAIL and XPASS.  A line is therefore
\* never counted both as failed and as xfailed, nor both as passed and as
\* xpassed, and a line with the words of two other categories is counted in
\* both.
C17_CountersPerWord ==
    pc = "parse" =>
        /\ run_results["passed"] = ParsedWith(IsPassed)
        /\ run_results["failed"] = ParsedWith(IsFailed)
        /\ run_results["skipped"] = ParsedWith(IsSkipped)
        /\ run_results["xfailed"] = ParsedWith(IsXFailed)
        /\ run_results["xpassed"] = ParsedWith(IsXPassed)
        /\ \A i \in 1..(line_no - 1) :
              /\ ~(IsFailed(process.stdout[i]) /\ IsXFailed(process.stdout[i]))
              /\ ~(IsPassed(process.stdout[i]) /\ IsXPassed(process.stdout[i]))

\* C17 witness: one parsed line holds PASSED and SKIPPED and is counted twice
C17_Witness ==
    /\ pc = "parse"
    /\ line_no = 2
    /\ process.stdout[1].has = {"PASSED", "SKIPPED"}
    /\ run_results["passed"] = 1
    /\ run_results["skipped"] = 1

HasPassing(line) == "passing" \in line.has
FailingOnly(line) == "failing" \in line.has /\ "passing" \notin line.has

\* C18: run_node_tests without package.json returns status FAIL and zero
\* counts and starts no process; with it, npm install is started first and
\* npm test only after npm install succeeded; the "passing" and "failing"
\* lines are counted only when npm test exits with code zero; after a failed
\* installation or a non-zero exit code the status is FAIL and the counts
\* are zero.
C18_NodeOrder ==
    Returned /\ adapter = "node" =>
        IF "package.json" \notin repo_files
        THEN /\ spawned = <<>>
             /\ run_results["status"] = "FAIL"
             /\ run_results["error"] = "No package.json found"
             /\ ZeroCounts(run_results)
        ELSE /\ Len(spawned) \in {1, 2}
             /\ spawned[1].cmd = "npm install"
             /\ Len(spawned) = 2 <=> spawned[1].outcome = "ok"
             /\ Len(spawned) = 2 => spawned[2].cmd = "npm test"
             /\ IF Len(spawned) = 2 /\ spawned[2].outcome = "ok"
                THEN /\ run_results["status"] = "PASS"
                     /\ run_results["passed"] = LinesWith(HasPassing)
                     /\ run_results["failed"] = LinesWith(FailingOnly)
                     /\ run_results["total_tests"] =
                           LinesWith(HasPassing) + LinesWith(FailingOnly)
                ELSE /\ run_results["status"] = "FAIL"
                     /\ ZeroCounts(run_results)

\* C18 witness: npm test printed a "passing" line and exited with a
\* non-zero code, and nothing was counted
C18_Witness ==
    /\ Returned
    /\ adapter = "node"
    /\ Len(spawned) = 2
    /\ spawned[2] = [cmd |-> "npm test", outcome |-> "failed"]
    /\ \E i \in DOMAIN process.stdout : HasPassing(process.stdout[i])
    /\ ZeroCounts(run_results)
    /\ run_results["status"] = "FAIL"

\* C19, as stated: a returned result with status PASS has failed = 0.
C19_Original ==
    Returned /\ run_results["status"] = "PASS" => run_results["failed"] = 0

-----------------------------------------------------------------------------
(* Properties of the README scanner and of the entry point *)

\* C14, as stated: when an input file is not well-formed or the repository
\* root does not exist, the entry point ends with a non-zero exit status and
\* no report is written.
C14_Original ==
    pc = "exit" /\ (almanack_results_file # "json" \/ test_results_file # "json"
                       \/ ~repo_dir_exists)
        => exit_status # 0 /\ ~output_file.written

\* C14: when an input file cannot be read as JSON, or the argument count is
\* wrong, the entry point ends with exit status 1 and no report is written;
\* no report is ever written with a non-zero exit status.  A repository root
\* that does not exist is not a failure: with both files well-formed the
\* report is written and the exit status is 0, README.md counting as absent
\* (Statement of Need is never "good").
C14_NoReportOnBadInput ==
    /\ pc # "exit" => exit_status = -1 /\ ~output_file.written
    /\ pc = "exit" =>
          /\ exit_status \in {0, 1}
          /\ exit_status # 0 => ~output_file.written
          /\ (argc # 5 \/ almanack_results_file # "json" \/ test_results_file # "json")
                => exit_status = 1 /\ ~output_file.written
          /\ (argc = 5 /\ almanack_results_file = "json" /\ test_results_file = "json")
                => /\ exit_status = 0
                   /\ output_file.written
                   /\ output_file.data = report
                   /\ DOMAIN output_file.data.criteria = CriteriaNames
                   /\ ~repo_dir_exists =>
                         output_file.data.criteria["Statement of Need"].status # GOOD

\* C14 witness: the repository root does not exist, both files are
\* well-formed, and a report was written with exit status 0
C14_Witness ==
    /\ pc = "exit"
    /\ ~repo_dir_exists
    /\ output_file.written
    /\ exit_status = 0
    /\ output_file.data.criteria["Statement of Need"].status = OK

Hit(phrases) ==
    \E phrase \in phrases : Occurs(Spell[phrase], Lower(readme_text.text))

\* C15: analyze_readme_content returns three false signals when README.md
\* is absent; otherwise, on the lower-cased text, statement_of_need is true
\* exactly when a problem phrase, an audience phrase and a related-work
\* phrase each occur, installation exactly when an installation phrase
\* occurs, example_usage exactly when a usage phrase occurs; a text with
\* "purpose", "users" and "alternative" and no installation or usage phrase
\* gives true, false, false.
C15_Signals ==
    pc = "scanned" =>
        IF ~readme_text.exists
        THEN signals = [statement_of_need |-> FALSE, installation |-> FALSE,
                        example_usage |-> FALSE]
        ELSE /\ signals.statement_of_need <=>
                    Hit(ProblemPhrases) /\ Hit(AudiencePhrases) /\ Hit(RelatedPhrases)
             /\ signals.installation <=> Hit(InstallPhrases)
             /\ signals.example_usage <=> Hit(UsagePhrases)
             /\ (Hit({"purpose"}) /\ Hit({"users"}) /\ Hit({"alternative"})
                    /\ ~Hit(InstallPhrases) /\ ~Hit(UsagePhrases))
                   => signals = [statement_of_need |-> TRUE, installation |-> FALSE,
                                 example_usage |-> FALSE]

\* C15 witness: the text "Purpose USERS alternative" was scanned
C15_Witness ==
    /\ pc = "scanned"
    /\ readme_text.exists
    /\ Len(readme_text.text) = 25
    /\ SubSeq(readme_text.text, 1, 7) = <<"P", "u", "r", "p", "o", "s", "e">>
    /\ SubSeq(readme_text.text, 9, 13) = <<"U", "S", "E", "R", "S">>
    /\ Occurs(Spell["alternative"], readme_text.text)
    /\ signals = [statement_of_need |-> TRUE, installation |-> FALSE,
                  example_usage |-> FALSE]

====
